---- MODULE Spec2Model ----
(***************************************************************************)
(* DivbloxDatabaseConnector (src/unnamed/part_002, the most complete       *)
(* revision of the connector: pooled connections, transactions with a      *)
(* closeTransaction flag, populateError ledger).                           *)
(*                                                                         *)
(* Every public operation is an async function.  A frame p is one          *)
(* invocation; pc[p] is the await it is suspended at, fr[p] its locals.    *)
(* One action is the code that runs when the awaited driver call settles,  *)
(* up to the next await.  The driver (mysql pool and connection) is an     *)
(* external collaborator: each of its calls either resolves or rejects,    *)
(* chosen nondeterministically.  close() is connection.release(), a        *)
(* synchronous call: it runs, and may throw, inside the continuation that  *)
(* invokes it.  fr[p].trace is the history of the driver calls a frame     *)
(* issued; the call field of a ledger record names the invocation that     *)
(* appended it.  Neither is read by the program.                           *)
(*                                                                         *)
(* src/index.js and src/unnamed/part_001 are older revisions of the same   *)
(* class (no closeTransaction flag, no populateError).                     *)
(*                                                                         *)
(* JavaScript values are encoded as strings: "null", "undefined", "true",  *)
(* "false", "OkPacket" (the object mysql resolves commit/rollback with),   *)
(* "rows" (a query result), "list" (an array of results, kept in           *)
(* fr[p].results), "handle" (the connection facade, kept in                *)
(* fr[p].database).                                                        *)
(***************************************************************************)
EXTENDS Integers, Sequences, FiniteSets, TLC

\* ---------------------------------------------------------------- bounds
\* Invocations made in one behaviour, statements in a batch, connections in
\* one pool.
MaxCalls == 3
MaxBatch == 2
PoolSize == 1
\* Invocations made in one behaviour of SpecConc.
ConcCalls == 2

\* ------------------------------------------------------------- constants
\* The configured modules, in Object.keys order (constructor).
ModuleArray == <<"main", "secondary">>

\* The frames of Spec: the caller awaits each invocation before it makes the
\* next one, as src/test.js does.
Frames == {1}
\* The frames of SpecConc: two invocations may be in flight at once.
ConcFrames == {1, 2}
NoConn == 0
Conns == 1..(Len(ModuleArray) * PoolSize)

\* The connections of the pool created for module number j.
PoolOf(j) == ((j - 1) * PoolSize + 1)..(j * PoolSize)

ModuleIndex(m) == CHOOSE j \in 1..Len(ModuleArray) : ModuleArray[j] = m

IsConfigured(m) == \E j \in 1..Len(ModuleArray) : ModuleArray[j] = m

\* Module names a caller may pass: a configured one, one that is not
\* configured, or none at all.
ModuleArgs == {ModuleArray[1], "nomod", "undefined"}

VARIABLES pc, fr, errorInfo, slot, handles, ncalls, hlog, isInitComplete

vars == <<pc, fr, errorInfo, slot, handles, ncalls, hlog, isInitComplete>>

\* ------------------------------------------------------------ JS values
Str(s) == [t |-> "string", message |-> s, call |-> 0]
JsNull == [t |-> "null", message |-> "", call |-> 0]
DriverError == [t |-> "object", message |-> "driver error", call |-> 0]
TypeError == [t |-> "object", message |-> "TypeError", call |-> 0]

\* JS truthiness of an encoded value.
Truthy(v) == v \in {"true", "OkPacket", "rows", "list", "handle"}

\* ------------------------------------------------------------ the ledger
\* getLastError: the last record as a value, or null.
GetLastError(ledger) ==
    IF Len(ledger) > 0
    THEN [t |-> "DxBaseError", message |-> ledger[Len(ledger)].message,
          call |-> ledger[Len(ledger)].call]
    ELSE JsNull

\* newErrorStack.errorStack: a DxBaseError contributes its own errorStack
\* (named here by the record it belongs to), a string contributes null, any
\* other object is kept as it is.
CauseOf(errorStack) ==
    CASE errorStack.t = "DxBaseError" -> [errorStack EXCEPT !.t = "errorStack"]
      [] errorStack.t = "string" -> JsNull
      [] OTHER -> errorStack

\* Mutant: a value that is neither a string nor an object is dropped without
\* a record.
PopulateErrorSkipsInvalid(ledger, c, errorToPush, errorStack, mustClean) ==
    LET base == IF mustClean THEN <<>> ELSE ledger
        stack == IF errorStack.t = "null" THEN errorToPush ELSE errorStack
    IN  IF errorToPush.t \in {"string", "object", "DxBaseError"}
        THEN Append(base, [message |-> IF errorToPush.message # ""
                                       THEN errorToPush.message
                                       ELSE "No message provided",
                           call |-> c, errorStack |-> CauseOf(stack)])
        ELSE base

\* Mutant: the new record is put in front of the ledger (unshift for push).
PopulateErrorPrepends(ledger, c, errorToPush, errorStack, mustClean) ==
    LET base == IF mustClean THEN <<>> ELSE ledger
        stack == IF errorStack.t = "null" THEN errorToPush ELSE errorStack
    IN  <<[message |-> IF errorToPush.message # "" THEN errorToPush.message
                       ELSE "No message provided",
           call |-> c, errorStack |-> CauseOf(stack)]>> \o base

\* populateError(errorToPush, errorStack, mustClean), run by invocation c.
PopulateError(ledger, c, errorToPush, errorStack, mustClean) ==
    LET base == IF mustClean THEN <<>> ELSE ledger
        stack == IF errorStack.t = "null" THEN errorToPush ELSE errorStack
        meta == "Invalid error type provided, errors can be only of type string or Object"
    IN  CASE errorToPush.t = "string" ->
               Append(base, [message |-> errorToPush.message, call |-> c,
                             errorStack |-> CauseOf(stack)])
          [] errorToPush.t \in {"object", "DxBaseError"} ->
               Append(base, [message |-> IF errorToPush.message # ""
                                         THEN errorToPush.message
                                         ELSE "No message provided",
                             call |-> c, errorStack |-> CauseOf(stack)])
          [] OTHER ->
               Append(base, [message |-> meta, call |-> c, errorStack |-> JsNull])

\* populateError(message) and populateError(message, error) as the
\* operations call it.
Record(ledger, c, msg) == PopulateError(ledger, c, Str(msg), JsNull, FALSE)
RecordWith(ledger, c, msg, error) == PopulateError(ledger, c, Str(msg), error, FALSE)

\* --------------------------------------------------------------- frames
IdleFrame ==
    [op |-> "idle", call |-> 0, query |-> "undefined", moduleName |-> "undefined",
     transaction |-> NoConn, closeTransaction |-> TRUE, database |-> NoConn,
     n |-> 0, results |-> <<>>, queryResult |-> "null", success |-> "true", i |-> 0,
     trace |-> <<>>, len0 |-> 0, ret |-> "undefined", outcome |-> "none",
     mustClean |-> FALSE, errors |-> <<>>, lastError |-> JsNull,
     prevOp |-> "idle", prevErrors |-> <<>>,
     errorToPush |-> JsNull, errorStack |-> JsNull]

\* A driver call issued by a frame, with the connection and how it settled.
Ev(e, c, ok) == [ev |-> e, conn |-> c, ok |-> ok]

Issue(f, e, c, ok) == [f EXCEPT !.trace = Append(@, Ev(e, c, ok))]

\* The invocation completes normally with value v / rejects.
Return(f, v) == [f EXCEPT !.ret = v, !.outcome = "returned"]
Throw(f) == [f EXCEPT !.ret = "undefined", !.outcome = "threw"]

Init ==
    /\ pc = [p \in Frames |-> "idle"]
    /\ fr = [p \in Frames |-> IdleFrame]
    /\ errorInfo = <<>>
    /\ slot = [c \in Conns |-> "free"]
    /\ handles = {}
    /\ ncalls = 0
    /\ hlog = [c \in Conns |-> <<>>]
    /\ isInitComplete = FALSE

\* A frame that can take a new invocation.
CallBudget == IF DOMAIN pc = Frames THEN MaxCalls ELSE ConcCalls

CanCall(p) == pc[p] \in {"idle", "done"} /\ ncalls < CallBudget

NewFrame(o) ==
    [IdleFrame EXCEPT !.op = o, !.call = ncalls + 1, !.len0 = Len(errorInfo),
                      !.outcome = "pending"]

\* ------------------------------------------------- synchronous helpers
\* The part of the state one continuation works on: its frame, the ledger
\* and the pool slots.
St(p) == [f |-> fr[p], e |-> errorInfo, s |-> slot]

\* The driver calls the continuation of frame p has just issued: what its
\* trace gained.
Issued(p, f) ==
    SubSeq(f.trace, (IF f.call = fr[p].call THEN Len(fr[p].trace) ELSE 0) + 1, Len(f.trace))

\* History: the driver calls made through handle c by the transaction
\* operations since beginTransaction returned it, each with the invocation
\* that made it.
HandleLog(p, f) ==
    LET new == Issued(p, f)
        Tag(k) == [ev |-> new[k].ev, ok |-> new[k].ok, call |-> f.call]
    IN  [c \in Conns |->
           IF f.op = "beginTransaction" /\ f.ret = "handle" /\ f.database = c
           THEN <<>>
           ELSE IF f.transaction = c /\ f.op \in {"queryDB", "commitTransaction",
                                                  "rollBackTransaction", "closeTransaction"}
                THEN hlog[c] \o [k \in 1..Len(new) |-> Tag(k)]
                ELSE hlog[c]]

Step(p, st, label) ==
    /\ fr' = [fr EXCEPT ![p] = st.f]
    /\ errorInfo' = st.e
    /\ slot' = st.s
    /\ pc' = [pc EXCEPT ![p] = label]
    /\ hlog' = HandleLog(p, st.f)
    /\ UNCHANGED isInitComplete

Err(st, msg, error) == [st EXCEPT !.e = RecordWith(@, st.f.call, msg, error)]

\* close() of the facade: connection.release(), a synchronous driver call.
\* It puts the connection back into its pool, or throws and leaves the pool
\* as it was.
Close(st, c, ok) ==
    [st EXCEPT !.f = Issue(@, "close", c, ok),
               !.s = IF ok THEN [@ EXCEPT ![c] = "free"] ELSE @]

\* Mutant: a release that throws is tried a second time.
closeTransactionRetries(st, c, ok) ==
    IF ok
    THEN [st |-> Close(st, c, TRUE), val |-> "true"]
    ELSE [st |-> Close(Close(st, c, FALSE), c, TRUE), val |-> "true"]

\* closeTransaction(transaction) with a connection: the frame after it and
\* the value it resolves with.
closeTransaction(st, c, ok) ==
    IF ok
    THEN [st |-> Close(st, c, TRUE), val |-> "true"]
    ELSE [st |-> Err(Close(st, c, FALSE), "Could not close transaction", DriverError),
          val |-> "false"]

\* a &&= b: b is evaluated, and assigned, only when a is truthy.
AndAssignEvaluates(a) == Truthy(a)

\* Mutants of FinishTransaction: one that ignores the closeTransaction flag,
\* one that never releases.
FinishTransactionAlwaysCloses(st, ok) ==
    LET r == closeTransaction(st, st.f.transaction, ok)
    IN  [r.st EXCEPT !.f = Return([@ EXCEPT !.success = r.val], r.val)]

FinishTransactionKeeps(st, ok) == [st EXCEPT !.f = Return(@, st.f.success)]

\* The code of commitTransaction and rollBackTransaction after the first
\* try block: return early when the connection is to be kept, otherwise
\*   success &&= await this.closeTransaction(transaction); return success.
FinishTransaction(st, ok) ==
    IF ~st.f.closeTransaction
    THEN [st EXCEPT !.f = Return(@, st.f.success)]
    ELSE IF AndAssignEvaluates(st.f.success)
         THEN LET r == closeTransaction(st, st.f.transaction, ok)
              IN  [r.st EXCEPT !.f = Return([@ EXCEPT !.success = r.val], r.val)]
         ELSE [st EXCEPT !.f = Return(@, st.f.success)]

\* Whether FinishTransaction reaches the release, so that its outcome is a
\* choice to make.
Releases(f) == f.closeTransaction /\ AndAssignEvaluates(f.success)

Outcomes(used) == IF used THEN BOOLEAN ELSE {TRUE}

\* ----------------------------------------------------------- connectDB
\* connectDB(undefined)
ConnectDBInvalid(p) ==
    /\ pc[p] = "connectDB"
    /\ fr[p].moduleName = "undefined"
    /\ Step(p, Err(St(p), "Invalid module name provided", JsNull), "connected")
    /\ UNCHANGED <<handles, ncalls>>

\* Mutant: a refused getConnection is tried once more before connectDB gives
\* up.
ConnectDBFailRetries(p) ==
    /\ pc[p] = "connectDB"
    /\ fr[p].moduleName # "undefined"
    /\ LET st == St(p)
       IN  IF IsConfigured(fr[p].moduleName)
           THEN Step(p, Err([st EXCEPT !.f = Issue(Issue(@, "acquire", NoConn, FALSE),
                                                    "acquire", NoConn, FALSE)],
                              "Could not interact with the database", DriverError),
                       "connected")
           ELSE Step(p, Err(st, "Could not interact with the database", TypeError),
                       "connected")
    /\ UNCHANGED <<handles, ncalls>>

\* Mutant: connectDB keeps waiting for a connection instead of giving up.
ConnectDBFailWaits(p) ==
    /\ pc[p] = "connectDB"
    /\ fr[p].moduleName # "undefined"
    /\ UNCHANGED vars

\* getPoolConnection rejects: there is no pool of that name (a TypeError,
\* no driver call), or the pool's getConnection fails.
ConnectDBFail(p) ==
    /\ pc[p] = "connectDB"
    /\ fr[p].moduleName # "undefined"
    /\ LET st == St(p)
       IN  IF IsConfigured(fr[p].moduleName)
           THEN Step(p, Err([st EXCEPT !.f = Issue(@, "acquire", NoConn, FALSE)],
                              "Could not interact with the database", DriverError),
                       "connected")
           ELSE Step(p, Err(st, "Could not interact with the database", TypeError),
                       "connected")
    /\ UNCHANGED <<handles, ncalls>>

\* Mutant: connectDB hands out a connection of the module's pool whether or
\* not it is in use (a connection kept per module instead of one acquired
\* per call).
ConnectDBOkShared(p) ==
    /\ pc[p] = "connectDB"
    /\ IsConfigured(fr[p].moduleName)
    /\ \E c \in PoolOf(ModuleIndex(fr[p].moduleName)) :
          Step(p, [St(p) EXCEPT !.f = Issue([@ EXCEPT !.database = c], "acquire", c, TRUE),
                                !.s = [@ EXCEPT ![c] = "held"]],
                  "connected")
    /\ UNCHANGED <<handles, ncalls>>

\* getPoolConnection resolves with a connection of the module's pool that
\* is not in use.
ConnectDBOk(p) ==
    /\ pc[p] = "connectDB"
    /\ IsConfigured(fr[p].moduleName)
    /\ \E c \in PoolOf(ModuleIndex(fr[p].moduleName)) :
          /\ slot[c] = "free"
          /\ Step(p, [St(p) EXCEPT !.f = Issue([@ EXCEPT !.database = c], "acquire", c, TRUE),
                                     !.s = [@ EXCEPT ![c] = "held"]],
                    "connected")
    /\ UNCHANGED <<handles, ncalls>>

\* ------------------------------------------------------------- queryDB
\* Mutant: only the query is checked.
QueryDBValidationQueryOnly(q, m) ==
    IF q = "undefined" THEN "Invalid query provided" ELSE ""

\* The argument checks of queryDB: the message of the error they record, or
\* "" when both arguments are defined.
QueryDBValidation(q, m) ==
    CASE q = "undefined" -> "Invalid query provided"
      [] q # "undefined" /\ m = "undefined" -> "Invalid module name provided"
      [] OTHER -> ""

\* Mutant: the error is handed back as the result and not recorded.
QueryDBCatchReturnsError(st) == [st EXCEPT !.f.queryResult = "errorObject"]

\* Mutant: the catch of the query sets the result to null and records
\* nothing.
QueryDBCatchSilent(st) == [st EXCEPT !.f.queryResult = "null"]

\* catch (error) of the query: the result is null and the error is recorded.
QueryDBCatch(st) ==
    Err([st EXCEPT !.f.queryResult = "null"], "Could not query the database", DriverError)

\* Mutant: the release of the private connection is recorded whether or not
\* it threw.
QueryDBFinallyRecords(st, c, withTransaction, okc) ==
    IF withTransaction THEN st
    ELSE Err(Close(st, c, okc), "Could not close the database", DriverError)

\* Mutant: the connection is closed after the query, also when it is a
\* transaction's.
QueryDBFinallyAlways(st, c, withTransaction, okc) ==
    IF okc THEN Close(st, c, TRUE)
    ELSE Err(Close(st, c, FALSE), "Could not close the database", DriverError)

\* Mutant: the private connection is closed only after a query that resolved.
QueryDBFinallyOnSuccess(st, c, withTransaction, okc) ==
    IF withTransaction \/ st.f.queryResult = "null" THEN st
    ELSE IF okc THEN Close(st, c, TRUE)
    ELSE Err(Close(st, c, FALSE), "Could not close the database", DriverError)

\* if (!withTransaction) { try { await database.close() } catch ... }
QueryDBFinally(st, c, withTransaction, okc) ==
    IF withTransaction THEN st
    ELSE IF okc THEN Close(st, c, TRUE)
    ELSE Err(Close(st, c, FALSE), "Could not close the database", DriverError)

CallQueryDB(p) ==
    /\ CanCall(p)
    /\ \E q \in {"sql", "undefined"}, m \in ModuleArgs, t \in handles \cup {NoConn} :
          LET f == [NewFrame("queryDB") EXCEPT !.query = q, !.moduleName = m,
                                               !.transaction = t]
              st == [f |-> f, e |-> errorInfo, s |-> slot]
          IN  IF QueryDBValidation(q, m) # ""
              THEN Step(p, [Err(st, QueryDBValidation(q, m), JsNull)
                              EXCEPT !.f = Return(@, "null")], "done")
              ELSE IF t # NoConn
              THEN Step(p, [st EXCEPT !.f.database = t], "query")
              ELSE Step(p, st, "connectDB")
    /\ ncalls' = ncalls + 1
    /\ UNCHANGED handles

QueryDBConnected(p) ==
    /\ pc[p] = "connected"
    /\ fr[p].op = "queryDB"
    /\ IF fr[p].database = NoConn
       THEN Step(p, [St(p) EXCEPT !.f = Return(@, "null")], "done")
       ELSE Step(p, St(p), "query")
    /\ UNCHANGED <<handles, ncalls>>

\* database.query settles; without a transaction the connection is closed.
QueryDBQuery(p) ==
    /\ pc[p] = "query"
    /\ LET withTransaction == fr[p].transaction # NoConn
           c == fr[p].database
       IN  \E ok \in BOOLEAN, okc \in Outcomes(~withTransaction) :
              LET st0 == [St(p) EXCEPT !.f = Issue(@, "query", c, ok)]
                  st1 == IF ok
                         THEN [st0 EXCEPT !.f.queryResult = "rows"]
                         ELSE QueryDBCatch(st0)
                  st2 == QueryDBFinally(st1, c, withTransaction, okc)
              IN  Step(p, [st2 EXCEPT !.f = Return(@, st2.f.queryResult)], "done")
    /\ UNCHANGED <<handles, ncalls>>

\* ---------------------------------------------------- beginTransaction
CallBeginTransaction(p) ==
    /\ CanCall(p)
    /\ \E m \in ModuleArgs :
          Step(p, [f |-> [NewFrame("beginTransaction") EXCEPT !.moduleName = m],
                     e |-> errorInfo, s |-> slot], "connectDB")
    /\ ncalls' = ncalls + 1
    /\ UNCHANGED handles

BeginConnected(p) ==
    /\ pc[p] = "connected"
    /\ fr[p].op = "beginTransaction"
    /\ IF fr[p].database = NoConn
       THEN Step(p, [Err(St(p), "Could not connect to database", GetLastError(errorInfo))
                         EXCEPT !.f = Return(@, "null")], "done")
       ELSE Step(p, St(p), "begin")
    /\ UNCHANGED <<handles, ncalls>>

\* database.beginTransaction settles.
BeginSettled(p) ==
    /\ pc[p] = "begin"
    /\ LET c == fr[p].database
       IN  \E ok \in BOOLEAN :
              \E okc \in Outcomes(~ok) :
                 LET st0 == [St(p) EXCEPT !.f = Issue(@, "begin", c, ok)]
                 IN  IF ok
                     THEN /\ Step(p, [st0 EXCEPT !.f = Return(@, "handle")], "done")
                          /\ handles' = handles \cup {c}
                     ELSE LET st1 == Close(Err(st0, "Error beginning", DriverError), c, okc)
                          IN  /\ Step(p, [st1 EXCEPT !.f = IF okc THEN Return(@, "null")
                                                                ELSE Throw(@)], "done")
                              /\ UNCHANGED handles
    /\ UNCHANGED ncalls

\* ---------------------------------------------------- commitTransaction
CallCommitTransaction(p) ==
    /\ CanCall(p)
    /\ \E t \in handles \cup {NoConn}, closeAfter \in BOOLEAN :
          LET f == [NewFrame("commitTransaction") EXCEPT !.transaction = t,
                                                         !.closeTransaction = closeAfter]
              st == [f |-> f, e |-> errorInfo, s |-> slot]
          IN  IF t = NoConn
              THEN Step(p, [Err(st, "Could not commit transaction. Invalid connection provided", JsNull)
                                EXCEPT !.f = Return(@, "false")], "done")
              ELSE Step(p, st, "commit")
    /\ ncalls' = ncalls + 1
    /\ UNCHANGED handles

\* transaction.commit settles.
CommitSettled(p) ==
    /\ pc[p] = "commit"
    /\ LET c == fr[p].transaction
       IN  \E ok \in BOOLEAN :
              LET st0 == [St(p) EXCEPT !.f = Issue(@, "commit", c, ok)]
              IN  IF ok
                  THEN LET st1 == [st0 EXCEPT !.f.success = "OkPacket"]
                       IN  \E okc \in Outcomes(Releases(st1.f)) :
                              Step(p, FinishTransaction(st1, okc), "done")
                  ELSE Step(p, Err([st0 EXCEPT !.f.success = "false"],
                                     "Error committing transaction", DriverError),
                              "commitRollback")
    /\ UNCHANGED <<handles, ncalls>>

\* Mutant: a compensating rollback that fails is not recorded.
CommitRollbackSettledSilent(p) ==
    /\ pc[p] = "commitRollback"
    /\ LET c == fr[p].transaction
       IN  \E ok \in BOOLEAN :
              LET st0 == [St(p) EXCEPT !.f = Issue(@, "rollback", c, ok)]
                  st1 == IF ok THEN st0 ELSE [st0 EXCEPT !.f.closeTransaction = TRUE]
              IN  \E okc \in Outcomes(Releases(st1.f)) :
                     Step(p, FinishTransaction(st1, okc), "done")
    /\ UNCHANGED <<handles, ncalls>>

\* The compensating transaction.rollback settles.
CommitRollbackSettled(p) ==
    /\ pc[p] = "commitRollback"
    /\ LET c == fr[p].transaction
       IN  \E ok \in BOOLEAN :
              LET st0 == [St(p) EXCEPT !.f = Issue(@, "rollback", c, ok)]
                  st1 == IF ok THEN st0
                         ELSE Err([st0 EXCEPT !.f.closeTransaction = TRUE],
                                  "Error rolling transaction back", DriverError)
              IN  \E okc \in Outcomes(Releases(st1.f)) :
                     Step(p, FinishTransaction(st1, okc), "done")
    /\ UNCHANGED <<handles, ncalls>>

\* -------------------------------------------------- rollBackTransaction
CallRollBackTransaction(p) ==
    /\ CanCall(p)
    /\ \E t \in handles \cup {NoConn}, closeAfter \in BOOLEAN :
          LET f == [NewFrame("rollBackTransaction") EXCEPT !.transaction = t,
                                                           !.closeTransaction = closeAfter]
              st == [f |-> f, e |-> errorInfo, s |-> slot]
          IN  IF t = NoConn
              THEN Step(p, [Err(st, "Could not roll back transaction. Invalid connection provided", JsNull)
                                EXCEPT !.f = Return(@, "false")], "done")
              ELSE Step(p, st, "rollback")
    /\ ncalls' = ncalls + 1
    /\ UNCHANGED handles

\* transaction.rollback settles.
RollBackSettled(p) ==
    /\ pc[p] = "rollback"
    /\ LET c == fr[p].transaction
       IN  \E ok \in BOOLEAN :
              LET st0 == [St(p) EXCEPT !.f = Issue(@, "rollback", c, ok)]
                  st1 == IF ok
                         THEN [st0 EXCEPT !.f.success = "OkPacket"]
                         ELSE Err([st0 EXCEPT !.f.success = "false",
                                              !.f.closeTransaction = TRUE],
                                  "Error rolling transaction back", DriverError)
              IN  \E okc \in Outcomes(Releases(st1.f)) :
                     Step(p, FinishTransaction(st1, okc), "done")
    /\ UNCHANGED <<handles, ncalls>>

\* ----------------------------------------------------- closeTransaction
CallCloseTransactionNullOk(p) ==
    /\ CanCall(p)
    /\ \E t \in handles \cup {NoConn} :
          \E okc \in Outcomes(t # NoConn) :
             LET f == [NewFrame("closeTransaction") EXCEPT !.transaction = t]
                 st == [f |-> f, e |-> errorInfo, s |-> slot]
             IN  IF t = NoConn
                 THEN Step(p, [st EXCEPT !.f = Return(@, "true")], "done")
                 ELSE LET r == closeTransaction(st, t, okc)
                      IN  Step(p, [r.st EXCEPT !.f = Return(@, r.val)], "done")
    /\ ncalls' = ncalls + 1
    /\ UNCHANGED handles

CallCloseTransaction(p) ==
    /\ CanCall(p)
    /\ \E t \in handles \cup {NoConn} :
          \E okc \in Outcomes(t # NoConn) :
             LET f == [NewFrame("closeTransaction") EXCEPT !.transaction = t]
                 st == [f |-> f, e |-> errorInfo, s |-> slot]
             IN  IF t = NoConn
                 THEN Step(p, [Err(st, "Could not close transaction. Invalid connection provided", JsNull)
                                   EXCEPT !.f = Return(@, "false")], "done")
                 ELSE LET r == closeTransaction(st, t, okc)
                      IN  Step(p, [r.st EXCEPT !.f = Return(@, r.val)], "done")
    /\ ncalls' = ncalls + 1
    /\ UNCHANGED handles


\* ------------------------------------- queryDBMultiple, queryWithTransaction
\* queryDBMultiple(queryArray, moduleName = null) with n statements.
CallQueryDBMultiple(p) ==
    /\ CanCall(p)
    /\ \E n \in 0..MaxBatch, m \in ModuleArgs :
          Step(p, [f |-> [NewFrame("queryDBMultiple")
                            EXCEPT !.n = n,
                                   !.moduleName = IF m = "undefined" THEN "null" ELSE m],
                   e |-> errorInfo, s |-> slot], "connectDB")
    /\ ncalls' = ncalls + 1
    /\ UNCHANGED handles

MultiConnected(p) ==
    /\ pc[p] = "connected"
    /\ fr[p].op = "queryDBMultiple"
    /\ IF fr[p].database = NoConn
       THEN Step(p, [St(p) EXCEPT !.f = Return(@, "null")], "done")
       ELSE Step(p, St(p), "qwtBegin")
    /\ UNCHANGED <<handles, ncalls>>

\* The end of queryWithTransaction: await database.close(), outside any try.
\* When it throws, queryDBMultiple's catch runs next.
\* Mutant: the connection is closed at the end of the try block only.
QwtCloseInsideTry(p, st, ok) ==
    IF st.f.queryResult = "null"
    THEN Step(p, [st EXCEPT !.f = Return(@, "null")], "done")
    ELSE LET st1 == Close(st, st.f.database, ok)
         IN  IF ok
             THEN Step(p, [st1 EXCEPT !.f = Return(@, st1.f.queryResult)], "done")
             ELSE Step(p, st1, "multiCatch")

QwtClose(p, st, ok) ==
    LET st1 == Close(st, st.f.database, ok)
    IN  IF ok
        THEN Step(p, [st1 EXCEPT !.f = Return(@, st1.f.queryResult)], "done")
        ELSE Step(p, st1, "multiCatch")

\* Mutant: the failure is recorded by queryWithTransaction and once more for
\* queryDBMultiple.
QwtCatchRecordsTwice(st) ==
    Err(Err([st EXCEPT !.f.queryResult = "null"], "Could not query with transaction", DriverError),
        "Error occurred during multi-query", DriverError)

\* The catch block of queryWithTransaction up to the rollback it awaits.
QwtCatch(st) ==
    Err([st EXCEPT !.f.queryResult = "null"], "Could not query with transaction", DriverError)

\* Mutant: the callback is run whether or not the begin succeeded.
AfterStatementRunsCallback(ok, k, n) ==
    IF ~ok /\ k > 0 THEN "qwtRollback"
    ELSE IF k = n THEN "qwtCommit" ELSE "qwtStatement"

\* Mutant: a rejected statement does not leave the loop.
AfterStatementIgnoresFailure(ok, k, n) ==
    IF k = n THEN "qwtCommit" ELSE "qwtStatement"

\* Where the callback's loop stands once statement k of n has settled (k = 0:
\* once the begin has settled): a rejection leaves the try block for the
\* rollback, the last statement ends the callback and the commit is issued.
AfterStatement(ok, k, n) ==
    IF ~ok THEN "qwtRollback"
    ELSE IF k = n THEN "qwtCommit" ELSE "qwtStatement"

\* queryResult = await callback(): the list of the statements' results.
CallbackReturns(st, label) ==
    IF label = "qwtCommit" THEN [st EXCEPT !.f.queryResult = "list"] ELSE st

\* database.beginTransaction settles; the callback issues its first
\* statement, or, with no statement, returns and the commit is issued.
QwtBegin(p) ==
    /\ pc[p] = "qwtBegin"
    /\ \E ok \in BOOLEAN :
          LET st0 == [St(p) EXCEPT !.f = Issue(@, "begin", fr[p].database, ok)]
              label == AfterStatement(ok, 0, fr[p].n)
          IN  IF ok
              THEN Step(p, CallbackReturns(st0, label), label)
              ELSE Step(p, QwtCatch(st0), label)
    /\ UNCHANGED <<handles, ncalls>>

\* The statement the callback awaits settles: statement Len(results) + 1.
QwtStatement(p) ==
    /\ pc[p] = "qwtStatement"
    /\ \E ok \in BOOLEAN :
          LET k == Len(fr[p].results) + 1
              st0 == [St(p) EXCEPT !.f = Issue(@, "query", fr[p].database, ok)]
              label == AfterStatement(ok, k, fr[p].n)
          IN  IF ok
              THEN Step(p, CallbackReturns([st0 EXCEPT !.f.results = Append(@, k)], label),
                        label)
              ELSE Step(p, QwtCatch(st0), label)
    /\ UNCHANGED <<handles, ncalls>>

\* database.commit settles.
QwtCommit(p) ==
    /\ pc[p] = "qwtCommit"
    /\ \E ok \in BOOLEAN :
          LET st0 == [St(p) EXCEPT !.f = Issue(@, "commit", fr[p].database, ok)]
          IN  IF ok
              THEN \E okc \in BOOLEAN : QwtClose(p, st0, okc)
              ELSE Step(p, QwtCatch(st0), "qwtRollback")
    /\ UNCHANGED <<handles, ncalls>>

\* database.rollback settles.
QwtRollback(p) ==
    /\ pc[p] = "qwtRollback"
    /\ \E ok \in BOOLEAN, okc \in BOOLEAN :
          LET st0 == [St(p) EXCEPT !.f = Issue(@, "rollback", fr[p].database, ok)]
              st1 == IF ok THEN st0
                     ELSE Err(st0, "Could not roll back transaction", DriverError)
          IN  QwtClose(p, st1, okc)
    /\ UNCHANGED <<handles, ncalls>>

\* The catch block of queryDBMultiple.
MultiCatch(p) ==
    /\ pc[p] = "multiCatch"
    /\ Step(p, [Err([St(p) EXCEPT !.f.queryResult = "null"],
                    "Error occurred during multi-query", DriverError)
                  EXCEPT !.f = Return(@, "null")], "done")
    /\ UNCHANGED <<handles, ncalls>>

\* ---------------------------------------------- init, checkDBConnection
CallInit(p) ==
    /\ CanCall(p)
    /\ Step(p, [f |-> [NewFrame("init") EXCEPT !.i = 1, !.moduleName = ModuleArray[1]],
                e |-> errorInfo, s |-> slot], "connectDB")
    /\ ncalls' = ncalls + 1
    /\ UNCHANGED handles

\* Mutant: the connection of the last module is not closed.
CheckDBConnectionKeepsLast(p) ==
    /\ pc[p] = "connected"
    /\ fr[p].op = "init"
    /\ LET c == fr[p].database
           msg == "Error connecting to database"
       IN  IF c = NoConn
           THEN Step(p, [Err(Err(St(p), msg, GetLastError(errorInfo)), msg, TypeError)
                           EXCEPT !.f = Throw(@)], "done")
           ELSE IF fr[p].i = Len(ModuleArray)
           THEN Step(p, [St(p) EXCEPT !.f = Return(@, "true")], "done")
           ELSE \E okc \in BOOLEAN :
                   LET st1 == Close(St(p), c, okc)
                   IN  IF ~okc
                       THEN Step(p, [Err(st1, msg, DriverError) EXCEPT !.f = Throw(@)], "done")
                       ELSE Step(p, [st1 EXCEPT !.f.i = @ + 1,
                                                !.f.moduleName = ModuleArray[fr[p].i + 1],
                                                !.f.database = NoConn], "connectDB")
    /\ UNCHANGED <<handles, ncalls>>

\* checkDBConnection after connectDB(moduleName) of module number i.
\* `database` is a const of the try block: the catch block's
\* `await database.close()` reads an undeclared name and throws a
\* ReferenceError, which nothing in checkDBConnection or init catches.
\* With database === null the try block's database.close() throws a
\* TypeError after the first record.
CheckDBConnection(p) ==
    /\ pc[p] = "connected"
    /\ fr[p].op = "init"
    /\ LET c == fr[p].database
           msg == "Error connecting to database"
       IN  IF c = NoConn
           THEN Step(p, [Err(Err(St(p), msg, GetLastError(errorInfo)), msg, TypeError)
                           EXCEPT !.f = Throw(@)], "done")
           ELSE \E okc \in BOOLEAN :
                   LET st1 == Close(St(p), c, okc)
                   IN  IF ~okc
                       THEN Step(p, [Err(st1, msg, DriverError) EXCEPT !.f = Throw(@)], "done")
                       ELSE IF fr[p].i < Len(ModuleArray)
                       THEN Step(p, [st1 EXCEPT !.f.i = @ + 1,
                                                !.f.moduleName = ModuleArray[fr[p].i + 1],
                                                !.f.database = NoConn], "connectDB")
                       ELSE Step(p, [st1 EXCEPT !.f = Return(@, "true")], "done")
    /\ UNCHANGED <<handles, ncalls>>

\* -------------------------------------------------------- error handling
\* Values a caller may pass to populateError as errorToPush: a string, an
\* object with a message, an object without one, or a value that is neither
\* a string nor an object.
Num == [t |-> "number", message |-> "", call |-> 0]
ErrorObject == [t |-> "object", message |-> "custom error", call |-> 0]
BareObject == [t |-> "object", message |-> "", call |-> 0]
ErrorArgs == {Str("custom"), ErrorObject, BareObject, Num}

\* Values a caller may pass as errorStack: none, or an error it caught.
CauseArgs == {JsNull, DriverError}

\* The frame of getError / getLastError remembers what the previous
\* invocation of the caller was and what it returned (history).
AfterPrevious(p, f) == [f EXCEPT !.prevOp = fr[p].op, !.prevErrors = fr[p].errors]

\* Mutant: getError hands the records over and empties the ledger.
GetErrorClears(ledger) == [ret |-> ledger, ledger |-> <<>>]

\* getError(): return this.errorInfo. The value returned and the ledger it
\* leaves.
GetError(ledger) == [ret |-> ledger, ledger |-> ledger]

CallGetError(p) ==
    /\ CanCall(p)
    /\ LET r == GetError(errorInfo)
           f == [AfterPrevious(p, NewFrame("getError")) EXCEPT !.errors = r.ret]
       IN  Step(p, [f |-> Return(f, "errorInfo"), e |-> r.ledger, s |-> slot], "done")
    /\ ncalls' = ncalls + 1
    /\ UNCHANGED handles

CallGetLastError(p) ==
    /\ CanCall(p)
    /\ LET v == GetLastError(errorInfo)
           f == [AfterPrevious(p, NewFrame("getLastError")) EXCEPT !.lastError = v]
       IN  Step(p, [f |-> Return(f, v.t), e |-> errorInfo, s |-> slot], "done")
    /\ ncalls' = ncalls + 1
    /\ UNCHANGED handles

\* populateError(errorToPush, errorStack, mustClean) called by the caller.
CallPopulateError(p) ==
    /\ CanCall(p)
    /\ \E x \in ErrorArgs, cause \in CauseArgs, mustClean \in BOOLEAN :
          LET f == [NewFrame("populateError") EXCEPT !.mustClean = mustClean,
                                                     !.errorToPush = x,
                                                     !.errorStack = cause]
          IN  Step(p, [f |-> Return(f, "undefined"),
                       e |-> PopulateError(errorInfo, f.call, x, cause, mustClean),
                       s |-> slot], "done")
    /\ ncalls' = ncalls + 1
    /\ UNCHANGED handles

\* resetError(): this.errorInfo = [].
CallResetError(p) ==
    /\ CanCall(p)
    /\ Step(p, [f |-> Return(NewFrame("resetError"), "undefined"), e |-> <<>>, s |-> slot],
            "done")
    /\ ncalls' = ncalls + 1
    /\ UNCHANGED handles

\* ------------------------------------------------------------ the system
Next ==
    \E p \in DOMAIN pc :
       \/ CallInit(p)
       \/ CallQueryDB(p)
       \/ CallQueryDBMultiple(p)
       \/ CallBeginTransaction(p)
       \/ CallCommitTransaction(p)
       \/ CallRollBackTransaction(p)
       \/ CallCloseTransaction(p)
       \/ ConnectDBInvalid(p)
       \/ ConnectDBFail(p)
       \/ ConnectDBOk(p)
       \/ QueryDBConnected(p)
       \/ QueryDBQuery(p)
       \/ BeginConnected(p)
       \/ BeginSettled(p)
       \/ CommitSettled(p)
       \/ CommitRollbackSettled(p)
       \/ RollBackSettled(p)
       \/ MultiConnected(p)
       \/ QwtBegin(p)
       \/ QwtStatement(p)
       \/ QwtCommit(p)
       \/ QwtRollback(p)
       \/ MultiCatch(p)
       \/ CheckDBConnection(p)
       \/ CallGetError(p)
       \/ CallGetLastError(p)
       \/ CallPopulateError(p)
       \/ CallResetError(p)

Spec == Init /\ [][Next]_vars

\* ------------------------------------------- the init-gate revision
\* The earlier revision of the connector (src/unnamed/part_001): connections
\* are created per call with mysql.createConnection, errors are pushed to
\* errorInfo as they are, and queries are refused until init() has
\* completed.
Push(ledger, c, msg) == Append(ledger, [message |-> msg, call |-> c, errorStack |-> JsNull])

NotInitialised ==
    "Database connector init not completed. Cannot execute query. Please run init() after instantiating the database connector"

\* The connection createConnection returns for module m.
GateConn(m) == ModuleIndex(m)

\* Arguments a caller may pass: a query or none, a configured module or
\* none.
GateQueryArgs == {"sql", "null"}
GateModuleArgs == {ModuleArray[1], "null"}

GateStep(p, f, ledger, label, flag) ==
    /\ fr' = [fr EXCEPT ![p] = f]
    /\ errorInfo' = ledger
    /\ pc' = [pc EXCEPT ![p] = label]
    /\ isInitComplete' = flag
    /\ UNCHANGED <<slot, handles, hlog>>

\* Mutant: the gate lets every query through.
GateAlwaysOpen(flag) == FALSE

\* !this.validateInitComplete(): the query is refused.
GateRefuses(flag) == ~flag

\* validateInitComplete(): the ledger it leaves.
ValidateInitComplete(ledger, c, flag) ==
    IF ~flag THEN Push(ledger, c, NotInitialised) ELSE ledger

\* init(): await this.checkDBConnection() starts with the first module.
GateCallInit(p) ==
    /\ CanCall(p)
    /\ GateStep(p, [NewFrame("init") EXCEPT !.i = 1, !.moduleName = ModuleArray[1]],
                errorInfo, "gateConnect", isInitComplete)
    /\ ncalls' = ncalls + 1

\* checkDBConnection: connectDB(moduleName) for the module at hand. A
\* createConnection that throws is pushed by connectDB, the null it returns
\* makes checkDBConnection throw, and init's catch pushes that.
GateConnect(p) ==
    /\ pc[p] = "gateConnect"
    /\ \E ok \in BOOLEAN :
          LET f == fr[p]
              c == GateConn(f.moduleName)
          IN  IF ok
              THEN GateStep(p, Issue([f EXCEPT !.database = c], "createConnection", c, TRUE),
                            errorInfo, "gateClose", isInitComplete)
              ELSE GateStep(p, Return(Issue(f, "createConnection", NoConn, FALSE), "undefined"),
                            Push(Push(errorInfo, f.call, "createConnection error"),
                                 f.call, "Error checking db connection"),
                            "done", isInitComplete)
    /\ UNCHANGED ncalls

\* checkDBConnection: await database.close() settles; after the last module
\* checkDBConnection returns true and init sets isInitComplete.
GateClosed(p) ==
    /\ pc[p] = "gateClose"
    /\ \E ok \in BOOLEAN :
          LET f == Issue(fr[p], "close", fr[p].database, ok)
          IN  IF ~ok
              THEN GateStep(p, Return(f, "undefined"),
                            Push(errorInfo, f.call, "Error checking db connection"),
                            "done", isInitComplete)
              ELSE IF f.i < Len(ModuleArray)
              THEN GateStep(p, [f EXCEPT !.i = @ + 1, !.moduleName = ModuleArray[f.i + 1],
                                         !.database = NoConn],
                            errorInfo, "gateConnect", isInitComplete)
              ELSE GateStep(p, Return(f, "undefined"), errorInfo, "done", TRUE)
    /\ UNCHANGED ncalls

\* queryDB(query, moduleName) up to its first await: the null query is
\* pushed (and not returned on), the gate is validated, connectDB creates the
\* connection.
GateCallQueryDB(p) ==
    /\ CanCall(p)
    /\ \E q \in GateQueryArgs, m \in GateModuleArgs, ok \in BOOLEAN :
          LET f == [NewFrame("queryDB") EXCEPT !.query = q, !.moduleName = m]
              e0 == IF q = "null" THEN Push(errorInfo, f.call, "Invalid query NULL provided")
                    ELSE errorInfo
              e1 == ValidateInitComplete(e0, f.call, isInitComplete)
              c == GateConn(m)
          IN  IF GateRefuses(isInitComplete)
              THEN GateStep(p, Return(f, "null"), e1, "done", isInitComplete)
              ELSE IF m = "null"
              THEN GateStep(p, Return(f, "null"),
                            Push(e1, f.call, "Invalid module name NULL provided"),
                            "done", isInitComplete)
              ELSE IF ~ok
              THEN GateStep(p, Return(Issue(f, "createConnection", NoConn, FALSE), "null"),
                            Push(e1, f.call, "createConnection error"), "done", isInitComplete)
              ELSE GateStep(p, Issue([f EXCEPT !.database = c], "createConnection", c, TRUE),
                            e1, "gateQuery", isInitComplete)
    /\ ncalls' = ncalls + 1

\* await database.query(query) settles: the rows, or {"error": error}.
GateQuerySettled(p) ==
    /\ pc[p] = "gateQuery"
    /\ \E ok \in BOOLEAN :
          GateStep(p, [Issue(fr[p], "query", fr[p].database, ok)
                         EXCEPT !.queryResult = IF ok THEN "rows" ELSE "errorObject"],
                   errorInfo, "gateQueryClose", isInitComplete)
    /\ UNCHANGED ncalls

\* finally: await database.close() settles, and queryDB returns.
GateQueryClosed(p) ==
    /\ pc[p] = "gateQueryClose"
    /\ \E ok \in BOOLEAN :
          LET f == Issue(fr[p], "close", fr[p].database, ok)
              r == IF ok THEN f.queryResult ELSE "errorObject"
          IN  GateStep(p, Return([f EXCEPT !.queryResult = r], r), errorInfo, "done",
                       isInitComplete)
    /\ UNCHANGED ncalls

\* queryDBMultiple(queryArray, moduleName): behind the gate and connectDB it
\* calls queryWithTransaction without `this.`, a ReferenceError its catch
\* turns into {"error": error}; no query is issued.
GateCallQueryDBMultiple(p) ==
    /\ CanCall(p)
    /\ \E n \in 0..MaxBatch, m \in GateModuleArgs, ok \in BOOLEAN :
          LET f == [NewFrame("queryDBMultiple") EXCEPT !.n = n, !.moduleName = m]
              e1 == ValidateInitComplete(errorInfo, f.call, isInitComplete)
              c == GateConn(m)
          IN  IF GateRefuses(isInitComplete)
              THEN GateStep(p, Return(f, "null"), e1, "done", isInitComplete)
              ELSE IF m = "null"
              THEN GateStep(p, Return(f, "null"),
                            Push(e1, f.call, "Invalid module name NULL provided"),
                            "done", isInitComplete)
              ELSE IF ~ok
              THEN GateStep(p, Return(Issue(f, "createConnection", NoConn, FALSE), "null"),
                            Push(e1, f.call, "createConnection error"), "done", isInitComplete)
              ELSE GateStep(p, Return([Issue([f EXCEPT !.database = c], "createConnection", c, TRUE)
                                         EXCEPT !.queryResult = "errorObject"], "errorObject"),
                            e1, "done", isInitComplete)
    /\ ncalls' = ncalls + 1

NextGate ==
    \E p \in DOMAIN pc :
       \/ GateCallInit(p)
       \/ GateConnect(p)
       \/ GateClosed(p)
       \/ GateCallQueryDB(p)
       \/ GateQuerySettled(p)
       \/ GateQueryClosed(p)
       \/ GateCallQueryDBMultiple(p)
       \/ CallGetError(p)

SpecGate == Init /\ [][NextGate]_vars

\* ------------------------------------------------------------- progress
\* The continuation of frame p after the driver call (or the connectDB) it
\* awaits has settled: every step of an operation other than its call.
Settle(p) ==
    \/ ConnectDBInvalid(p)
    \/ ConnectDBFail(p)
    \/ ConnectDBOk(p)
    \/ QueryDBConnected(p)
    \/ QueryDBQuery(p)
    \/ BeginConnected(p)
    \/ BeginSettled(p)
    \/ CommitSettled(p)
    \/ CommitRollbackSettled(p)
    \/ RollBackSettled(p)
    \/ MultiConnected(p)
    \/ QwtBegin(p)
    \/ QwtStatement(p)
    \/ QwtCommit(p)
    \/ QwtRollback(p)
    \/ MultiCatch(p)
    \/ CheckDBConnection(p)

\* Every promise of the driver settles, and the continuation that awaits it
\* then runs.
SpecLive == Init /\ [][Next]_vars /\ \A p \in Frames : WF_vars(Settle(p))

\* ------------------------------------------- concurrent invocations
\* The same operations with two frames: a second invocation may start while
\* the first is suspended at an await.
InitConc ==
    /\ pc = [p \in ConcFrames |-> "idle"]
    /\ fr = [p \in ConcFrames |-> IdleFrame]
    /\ errorInfo = <<>>
    /\ slot = [c \in Conns |-> "free"]
    /\ handles = {}
    /\ ncalls = 0
    /\ hlog = [c \in Conns |-> <<>>]
    /\ isInitComplete = FALSE

InFlight(p) == pc[p] \notin {"idle", "done"}

\* No release issued through handle t has succeeded: its connection is still
\* the transaction's.
StillOpen(t) == \A k \in DOMAIN hlog[t] : hlog[t][k].ev = "close" => ~hlog[t][k].ok

\* What the caller of a transaction keeps to: it passes a handle only while
\* the handle's connection has not been released, and to one invocation at a
\* time.
CallerDiscipline ==
    \A p \in DOMAIN pc :
       (fr'[p].call # fr[p].call /\ fr'[p].transaction # NoConn)
       => /\ StillOpen(fr'[p].transaction)
          /\ \A q \in DOMAIN pc : InFlight(q) => fr[q].transaction # fr'[p].transaction

NextConc == Next /\ CallerDiscipline

SpecConc == InitConc /\ [][NextConc]_vars

TypeOK ==
    /\ pc \in [DOMAIN fr -> {"idle", "done", "connectDB", "connected", "query", "begin",
                          "commit", "commitRollback", "rollback", "qwtBegin",
                          "qwtStatement", "qwtCommit", "qwtRollback", "multiCatch",
                          "gateConnect", "gateClose", "gateQuery", "gateQueryClose"}]
    /\ \A c \in Conns : slot[c] \in {"free", "held"}
    /\ handles \subseteq Conns
    /\ ncalls \in 0..MaxCalls
    /\ isInitComplete \in BOOLEAN
    /\ \A p \in DOMAIN pc : (pc[p] = "done") = (fr[p].outcome \in {"returned", "threw"})

\* ============================================================== claims
\* What a frame did, read off its trace and the ledger.
Done(p) == pc[p] = "done"

Positions(f, e) == {i \in DOMAIN f.trace : f.trace[i].ev = e}

Count(f, e) == Cardinality(Positions(f, e))

CountOn(f, e, c) == Cardinality({i \in Positions(f, e) : f.trace[i].conn = c})

Failed(f, e) == \E i \in Positions(f, e) : ~f.trace[i].ok

Succeeded(f, e) == \E i \in Positions(f, e) : f.trace[i].ok

\* The records the invocation of frame f appended.
Appended(f) == {i \in DOMAIN errorInfo : errorInfo[i].call = f.call}

AppendedWith(f, msg) == {i \in Appended(f) : errorInfo[i].message = msg}

IsBoolean(v) == v \in {"true", "false"}

\* C1: a commitTransaction on a handle whose driver commit fails attempts a
\* driver rollback on the same connection and has invoked close() on it
\* exactly once when it returns, whether or not the rollback fails.
C1_CommitFailureClosesOnce ==
    \A p \in DOMAIN pc :
       (Done(p) /\ fr[p].op = "commitTransaction" /\ fr[p].transaction # NoConn
          /\ Failed(fr[p], "commit"))
       => /\ CountOn(fr[p], "rollback", fr[p].transaction) = 1
          /\ CountOn(fr[p], "close", fr[p].transaction) = 1

\* C2: a rollBackTransaction on a handle whose driver rollback fails has
\* attempted close() on the connection exactly once when it returns, also
\* with closeAfter = false, and returns false.
C2_RollbackFailureForcesClose ==
    \A p \in DOMAIN pc :
       (Done(p) /\ fr[p].op = "rollBackTransaction" /\ fr[p].transaction # NoConn
          /\ Failed(fr[p], "rollback"))
       => /\ CountOn(fr[p], "close", fr[p].transaction) = 1
          /\ fr[p].outcome = "returned"
          /\ fr[p].ret = "false"

\* C3: in a queryDBMultiple batch whose statement k is the first to fail, no
\* later statement is issued (the failed one is the k-th and last query of
\* the trace), no commit is ever issued, and the call ends having issued one
\* rollback and returning null.
C3_BatchAbortsAtFirstFailure ==
    \A p \in DOMAIN pc :
       (fr[p].op = "queryDBMultiple" /\ Failed(fr[p], "query"))
       => LET f == fr[p]
              k == CHOOSE i \in Positions(f, "query") : ~f.trace[i].ok
          IN  /\ \A i \in Positions(f, "query") : i <= k
              /\ Count(f, "query") = Len(f.results) + 1
              /\ Count(f, "query") <= f.n
              /\ Count(f, "commit") = 0
              /\ Done(p) => /\ f.outcome = "returned"
                            /\ f.ret = "null"
                            /\ CountOn(f, "rollback", f.database) = 1

\* C3 witness: a batch of two whose first statement failed has returned.
C3_Witness ==
    \E p \in DOMAIN pc :
       /\ Done(p) /\ fr[p].op = "queryDBMultiple" /\ fr[p].n = 2
       /\ Failed(fr[p], "query") /\ fr[p].results = <<>>
       /\ fr[p].ret = "null"

\* C4: queryDB with sql undefined or moduleName undefined issues no driver
\* call (no acquire, query or release), returns null and appends exactly one
\* record.
C4_InvalidArgumentsNoIO ==
    \A p \in DOMAIN pc :
       (fr[p].op = "queryDB"
          /\ (fr[p].query = "undefined" \/ fr[p].moduleName = "undefined"))
       => /\ fr[p].trace = <<>>
          /\ Done(p)
          /\ fr[p].outcome = "returned"
          /\ fr[p].ret = "null"
          /\ Cardinality(Appended(fr[p])) = 1

\* C4 witness: queryDB(sql, undefined, values, handle) has returned.
C4_Witness ==
    \E p \in DOMAIN pc :
       /\ Done(p) /\ fr[p].op = "queryDB" /\ fr[p].query = "sql"
       /\ fr[p].moduleName = "undefined" /\ fr[p].transaction # NoConn
       /\ fr[p].ret = "null"

\* C5: a queryDB without a handle that acquired a connection has, when it
\* returns, issued the query and then close() on that connection exactly
\* once as its last driver call, whether the query resolved or rejected;
\* it returns normally, and the release that succeeded left the connection
\* in its pool.
C5_PrivateConnectionReleasedOnce ==
    \A p \in DOMAIN pc :
       (Done(p) /\ fr[p].op = "queryDB" /\ fr[p].transaction = NoConn
          /\ Succeeded(fr[p], "acquire"))
       => LET f == fr[p]
              c == f.database
          IN  /\ c # NoConn
              /\ f.outcome = "returned"
              /\ CountOn(f, "query", c) = 1
              /\ Count(f, "close") = 1
              /\ f.trace[Len(f.trace)].ev = "close"
              /\ f.trace[Len(f.trace)].conn = c
              /\ f.trace[Len(f.trace)].ok => slot[c] = "free"

\* C5 witness: the query of an auto-managed queryDB rejected and the call
\* has returned.
C5_Witness ==
    \E p \in DOMAIN pc :
       /\ Done(p) /\ fr[p].op = "queryDB" /\ fr[p].transaction = NoConn
       /\ Failed(fr[p], "query") /\ Succeeded(fr[p], "close")

\* Every configured module had a connection acquired and released by the
\* init of frame f.
AllModulesChecked(f) ==
    \A j \in 1..Len(ModuleArray) :
       \E i \in Positions(f, "acquire") :
          /\ f.trace[i].ok
          /\ f.trace[i].conn \in PoolOf(j)
          /\ i < Len(f.trace)
          /\ f.trace[i + 1] = Ev("close", f.trace[i].conn, TRUE)

\* C6: init() returns true if and only if every module's pool gave a
\* connection and took it back; if a module's acquire fails it returns
\* false.
C6_InitTrueIffAllModulesOk ==
    \A p \in DOMAIN pc :
       (Done(p) /\ fr[p].op = "init")
       => /\ fr[p].outcome = "returned"
          /\ (fr[p].ret = "true") = AllModulesChecked(fr[p])
          /\ Failed(fr[p], "acquire") => fr[p].ret = "false"

\* C7: when a module's connection cannot be acquired during init(), init()
\* does not raise: it appends at least one record and completes normally,
\* reporting failure.
C7_InitFailureDoesNotRaise ==
    \A p \in DOMAIN pc :
       (Done(p) /\ fr[p].op = "init" /\ Failed(fr[p], "acquire"))
       => /\ Appended(fr[p]) # {}
          /\ fr[p].outcome = "returned"
          /\ ~Truthy(fr[p].ret)

\* C8: a queryDB whose driver query rejects returns null and has appended
\* the record of the failure; without a handle the private connection was
\* still released.  Null is the failure signal: a returned queryDB gave
\* either null or the rows of a query that resolved.
C8_QueryFailureYieldsNull ==
    \A p \in DOMAIN pc :
       (Done(p) /\ fr[p].op = "queryDB")
       => LET f == fr[p]
          IN  /\ f.outcome = "returned"
              /\ f.ret \in {"null", "rows"}
              /\ (f.ret = "rows") = Succeeded(f, "query")
              /\ Failed(f, "query")
                 => /\ f.ret = "null"
                    /\ AppendedWith(f, "Could not query the database") # {}
                    /\ f.transaction = NoConn => CountOn(f, "close", f.database) = 1
                    /\ f.transaction # NoConn => Count(f, "close") = 0

\* C8 witness: a queryDB on a transaction handle whose query rejected.
C8_Witness ==
    \E p \in DOMAIN pc :
       /\ Done(p) /\ fr[p].op = "queryDB" /\ fr[p].transaction # NoConn
       /\ Failed(fr[p], "query") /\ fr[p].ret = "null"

\* C9: commitTransaction, rollBackTransaction and closeTransaction never
\* throw and return a boolean, whatever the driver's commit, rollback and
\* release do; each driver failure is appended to the ledger, and a failing
\* release in closeTransaction gives false and one record.
C9_TransactionCallsReturnBoolean ==
    \A p \in DOMAIN pc :
       (Done(p) /\ fr[p].op \in {"commitTransaction", "rollBackTransaction",
                                  "closeTransaction"})
       => LET f == fr[p]
              failures == {i \in DOMAIN f.trace : ~f.trace[i].ok}
          IN  /\ f.outcome = "returned"
              /\ IsBoolean(f.ret)
              /\ f.transaction # NoConn => Cardinality(Appended(f)) = Cardinality(failures)
              /\ (f.op = "closeTransaction" /\ Failed(f, "close"))
                 => f.ret = "false" /\ Cardinality(Appended(f)) = 1

\* C10: when beginTransaction acquired a connection and the driver begin
\* fails, close() is invoked on the connection exactly once, an error is
\* recorded and the call returns null.
C10_BeginFailureClosesAndReturnsNull ==
    \A p \in DOMAIN pc :
       (Done(p) /\ fr[p].op = "beginTransaction" /\ Failed(fr[p], "begin"))
       => /\ CountOn(fr[p], "close", fr[p].database) = 1
          /\ AppendedWith(fr[p], "Error beginning") # {}
          /\ fr[p].outcome = "returned"
          /\ fr[p].ret = "null"

\* The driver calls made through a handle so far.
AllOk(log) == \A k \in DOMAIN log : log[k].ok

\* The events of log that invocation c issued, and those of the others.
OfCall(log, c) == SelectSeq(log, LAMBDA e : e.call = c)
NotOfCall(log, c) == SelectSeq(log, LAMBDA e : e.call # c)

Finisher(o) == IF o = "commitTransaction" THEN "commit" ELSE "rollback"

\* C11: on the path beginTransaction, any number of queryDB on the handle,
\* then commitTransaction (or rollBackTransaction) on the handle with the
\* default closeAfter, where every driver call succeeded, the call issued the
\* commit (rollback) after all the queries and then close() on the
\* connection exactly once, returned true, and the connection is back in its
\* pool.
C11_SuccessPathCommitsThenCloses ==
    \A p \in DOMAIN pc :
       LET f == fr[p]
           t == f.transaction
       IN  (Done(p) /\ f.op \in {"commitTransaction", "rollBackTransaction"}
              /\ t # NoConn /\ f.closeTransaction
              /\ AllOk(hlog[t])
              /\ \A k \in DOMAIN NotOfCall(hlog[t], f.call) :
                    NotOfCall(hlog[t], f.call)[k].ev = "query")
           => /\ f.trace = <<Ev(Finisher(f.op), t, TRUE), Ev("close", t, TRUE)>>
              /\ hlog[t] = NotOfCall(hlog[t], f.call) \o OfCall(hlog[t], f.call)
              /\ Len(OfCall(hlog[t], f.call)) = 2
              /\ f.outcome = "returned"
              /\ f.ret = "true"
              /\ slot[t] = "free"

\* C11 witness: a commitTransaction with the default closeAfter has returned
\* true on a handle through which one query ran before, all driver calls
\* successful.
C11_Witness ==
    \E p \in DOMAIN pc :
       LET f == fr[p]
           t == f.transaction
       IN  /\ Done(p) /\ f.op = "commitTransaction" /\ t # NoConn /\ f.closeTransaction
           /\ AllOk(hlog[t])
           /\ Len(hlog[t]) = 3
           /\ hlog[t][1].ev = "query" /\ hlog[t][2].ev = "commit" /\ hlog[t][3].ev = "close"
           /\ f.ret = "true"

\* The handle log of t holds a commit or rollback that succeeded.
Finished(t) == \E k \in DOMAIN hlog[t] : hlog[t][k].ev \in {"commit", "rollback"} /\ hlog[t][k].ok

\* C12: a commitTransaction or rollBackTransaction called with closeAfter =
\* false whose driver commit (rollback) succeeds issues that one driver call
\* and no close(); the connection stays out of its pool, and a queryDB made
\* on the handle afterwards issues its query on that connection.
C12_KeepOpenDoesNotClose ==
    \A p \in DOMAIN pc :
       LET f == fr[p]
           t == f.transaction
       IN  /\ (Done(p) /\ f.op \in {"commitTransaction", "rollBackTransaction"}
                 /\ t # NoConn /\ ~f.closeTransaction /\ Succeeded(f, Finisher(f.op)))
              => /\ f.trace = <<Ev(Finisher(f.op), t, TRUE)>>
                 /\ Count(f, "close") = 0
                 /\ f.outcome = "returned"
                 /\ StillOpen(t) => slot[t] = "held"
           /\ (Done(p) /\ f.op = "queryDB" /\ t # NoConn /\ f.query # "undefined"
                 /\ f.moduleName # "undefined" /\ Finished(t) /\ StillOpen(t))
              => /\ CountOn(f, "query", t) = 1
                 /\ slot[t] = "held"

\* C12 witness: a queryDB on a handle has run its query after a
\* commitTransaction(handle, false) on it succeeded; the connection is held.
C12_Witness ==
    \E p \in DOMAIN pc :
       LET f == fr[p]
           t == f.transaction
       IN  /\ Done(p) /\ f.op = "queryDB" /\ t # NoConn
           /\ Len(hlog[t]) = 2
           /\ hlog[t][1].ev = "commit" /\ hlog[t][1].ok
           /\ hlog[t][2].ev = "query" /\ hlog[t][2].ok /\ hlog[t][2].call = f.call
           /\ slot[t] = "held"

\* C13: a queryDB given a handle (and valid arguments) acquires no
\* connection and issues no close(); its only driver call is the query, on
\* the handle's connection, whether the query resolves or rejects.
C13_QueryOnHandleNeitherAcquiresNorCloses ==
    \A p \in DOMAIN pc :
       LET f == fr[p]
           t == f.transaction
       IN  (f.op = "queryDB" /\ t # NoConn /\ f.query # "undefined"
              /\ f.moduleName # "undefined")
           => /\ Count(f, "acquire") = 0
              /\ Count(f, "close") = 0
              /\ f.database = t
              /\ \A i \in DOMAIN f.trace : f.trace[i].ev = "query" /\ f.trace[i].conn = t
              /\ Done(p) => /\ Len(f.trace) = 1
                            /\ f.outcome = "returned"
                            /\ f.ret = IF f.trace[1].ok THEN "rows" ELSE "null"

\* C13 witness: a queryDB on a handle whose query rejected has returned.
C13_Witness ==
    \E p \in DOMAIN pc :
       /\ Done(p) /\ fr[p].op = "queryDB" /\ fr[p].transaction # NoConn
       /\ Failed(fr[p], "query") /\ CountOn(fr[p], "query", fr[p].transaction) = 1

\* The batch of frame f ran as written: every statement on the one acquired
\* connection in array order, then one commit after the last statement.
BatchInOrder(f) ==
    LET c == f.database
    IN  /\ c # NoConn
        /\ Len(f.trace) >= f.n + 3
        /\ f.trace[1] = Ev("acquire", c, TRUE)
        /\ f.trace[2] = Ev("begin", c, TRUE)
        /\ \A k \in 1..f.n : f.trace[2 + k] = Ev("query", c, TRUE)
        /\ f.trace[f.n + 3] = Ev("commit", c, TRUE)
        /\ Count(f, "query") = f.n
        /\ Count(f, "commit") = 1
        /\ f.results = [k \in 1..f.n |-> k]

\* C14: a queryDBMultiple whose statements all succeed and whose commit
\* succeeds issued the statements in array order on one connection and the
\* commit once after the last of them, and returns the list of the
\* statements' results, the i-th result at position i.
C14_BatchReturnsResultsInOrder ==
    \A p \in DOMAIN pc :
       (Done(p) /\ fr[p].op = "queryDBMultiple" /\ ~Failed(fr[p], "query")
          /\ Succeeded(fr[p], "commit"))
       => /\ BatchInOrder(fr[p])
          /\ fr[p].outcome = "returned"
          /\ fr[p].ret = "list"

\* The callback of frame f ran to its end: the begin succeeded and every one
\* of the n statements was issued and succeeded.
CallbackSucceeded(f) ==
    Succeeded(f, "begin") /\ ~Failed(f, "query") /\ Count(f, "query") = f.n

\* C15: queryWithTransaction on a connection issues the driver begin first;
\* it issues the commit exactly when the callback succeeded, and a rollback
\* and no commit when the callback failed; a failed begin or commit is
\* followed by a rollback; and in every case, also when begin, commit or
\* rollback failed, it has invoked close() on the connection exactly once,
\* as its last driver call, when it ends.
C15_QueryWithTransactionClosesOnceLast ==
    \A p \in DOMAIN pc :
       LET f == fr[p]
           c == f.database
           last == f.trace[Len(f.trace)]
       IN  (f.op = "queryDBMultiple" /\ Succeeded(f, "acquire"))
           => /\ Count(f, "close") > 0 => (pc[p] \in {"multiCatch", "done"} /\ last.ev = "close")
              /\ Done(p)
                 => /\ f.trace[2].ev = "begin" /\ Count(f, "begin") = 1
                    /\ CountOn(f, "close", c) = 1 /\ Count(f, "close") = 1
                    /\ last.ev = "close"
                    /\ Count(f, "commit") = (IF CallbackSucceeded(f) THEN 1 ELSE 0)
                    /\ Count(f, "rollback")
                         = (IF Failed(f, "begin") \/ Failed(f, "query") \/ Failed(f, "commit")
                            THEN 1 ELSE 0)
                    /\ \A i \in DOMAIN f.trace : i > 1 => f.trace[i].conn = c

\* C15 witness: the commit failed, the rollback failed too, and the call has
\* ended after its close().
C15_Witness ==
    \E p \in DOMAIN pc :
       /\ Done(p) /\ fr[p].op = "queryDBMultiple"
       /\ Failed(fr[p], "commit") /\ Failed(fr[p], "rollback")
       /\ fr[p].trace[Len(fr[p].trace)].ev = "close"

\* Frame p acquired connection c itself and has not released it: its trace
\* holds an acquire of c and no successful close of c.
Holds(p, c) ==
    /\ InFlight(p)
    /\ \E i \in DOMAIN fr[p].trace : fr[p].trace[i] = Ev("acquire", c, TRUE)
    /\ ~\E i \in DOMAIN fr[p].trace : fr[p].trace[i] = Ev("close", c, TRUE)

\* Connection c belongs to a transaction that was begun and not released.
InTransaction(c) == c \in handles /\ StillOpen(c)

\* The logical operations connection c is in use by: the invocations in
\* flight that acquired it, and the open transaction it is the handle of.
UsersOf(c) ==
    {<<"invocation", p>> : p \in {q \in DOMAIN pc : Holds(q, c)}}
       \cup (IF InTransaction(c) THEN {<<"transaction", c>>} ELSE {})

\* C16: whatever the interleaving of the invocations in flight, no pooled
\* connection is in use by two logical operations at once, a connection in
\* use is out of its pool, and an invocation issues its driver calls only on
\* the connection it acquired or on the handle it was given.
C16_NoConnectionSharedByTwoOperations ==
    /\ \A c \in Conns :
          /\ Cardinality(UsersOf(c)) <= 1
          /\ UsersOf(c) # {} => slot[c] = "held"
    /\ \A p \in DOMAIN pc : \A i \in DOMAIN fr[p].trace :
          fr[p].trace[i].conn \in {NoConn, fr[p].database, fr[p].transaction}
             \cup {c \in Conns : fr[p].op = "init"}

\* C16 witness: one invocation holds the connection of a pool while another,
\* started meanwhile, has been refused a connection of the same pool.
C16_Witness ==
    \E p, q \in DOMAIN pc :
       /\ p # q
       /\ \E c \in Conns : Holds(p, c) /\ fr[p].moduleName = fr[q].moduleName
       /\ Failed(fr[q], "acquire")
       /\ fr[q].moduleName = ModuleArray[1]

TransactionOps == {"commitTransaction", "rollBackTransaction", "closeTransaction"}

\* The close() calls made through handle t, as positions of its log.
Closes(t) == {k \in DOMAIN hlog[t] : hlog[t][k].ev = "close"}

\* The commits, rollbacks and releases that succeeded on handle t, in order.
HandlePath(t) ==
    LET done == SelectSeq(hlog[t], LAMBDA e : e.ev \in {"commit", "rollback", "close"} /\ e.ok)
    IN  [k \in DOMAIN done |-> done[k].ev]

IsPrefix(s, t) == Len(s) <= Len(t) /\ SubSeq(t, 1, Len(s)) = s

\* C17 as stated: over the calls made on one handle close() is invoked at
\* most once in total, and the handle moves only from Open to Committed or
\* RolledBack and from there to Closed.
C17_HandleClosedAtMostOnceInTotal ==
    \A t \in handles :
       /\ Cardinality(Closes(t)) <= 1
       /\ \/ IsPrefix(HandlePath(t), <<"commit", "close">>)
          \/ IsPrefix(HandlePath(t), <<"rollback", "close">>)
          \/ HandlePath(t) = <<"close">>

\* C17 amended: each commitTransaction, rollBackTransaction or
\* closeTransaction call on a handle invokes close() at most once, on the
\* handle's connection and as its last driver call, so that the close()
\* calls made through a handle come from different calls; and every such
\* call issues its commit, rollback or close, whatever was called on the
\* handle before.
C17_EachCallClosesAtMostOnce ==
    /\ \A p \in DOMAIN pc :
          LET f == fr[p]
              t == f.transaction
          IN  (f.op \in TransactionOps /\ t # NoConn)
              => /\ Count(f, "close") <= 1
                 /\ \A i \in Positions(f, "close") : i = Len(f.trace) /\ f.trace[i].conn = t
                 /\ Done(p) => CASE f.op = "commitTransaction" -> CountOn(f, "commit", t) = 1
                                 [] f.op = "rollBackTransaction" -> CountOn(f, "rollback", t) = 1
                                 [] OTHER -> CountOn(f, "close", t) = 1
    /\ \A t \in Conns : \A j, k \in Closes(t) : j # k => hlog[t][j].call # hlog[t][k].call

\* C17 witness: close() was invoked twice through one handle, by a
\* commitTransaction and by the closeTransaction called after it.
C17_Witness ==
    \E p \in DOMAIN pc : \E t \in handles :
       /\ Done(p) /\ fr[p].op = "closeTransaction" /\ fr[p].transaction = t
       /\ Cardinality(Closes(t)) = 2
       /\ HandlePath(t) = <<"commit", "close", "close">>

\* The invocation of frame f ended telling its caller that it failed: null
\* from an operation that returns data or a handle, false (or an exception)
\* from one that returns a success flag.
ReportsFailure(f) ==
    \/ /\ f.op \in {"queryDB", "queryDBMultiple", "beginTransaction"}
       /\ f.outcome = "returned" /\ f.ret = "null"
    \/ /\ f.op \in {"init"} \cup TransactionOps
       /\ \/ f.outcome = "returned" /\ f.ret = "false"
          \/ f.outcome = "threw"

\* C18: whenever queryDB, queryDBMultiple or beginTransaction returns null,
\* or init, commitTransaction, rollBackTransaction or closeTransaction
\* reports failure, the call appended at least one record to the ledger.
C18_FailureLeavesARecord ==
    \A p \in DOMAIN pc :
       (Done(p) /\ ReportsFailure(fr[p])) => Appended(fr[p]) # {}

\* C18 witness: a queryDBMultiple whose connection could not be acquired has
\* returned null, and a record of the call is in the ledger.
C18_Witness ==
    \E p \in DOMAIN pc :
       /\ Done(p) /\ fr[p].op = "queryDBMultiple" /\ fr[p].ret = "null"
       /\ Failed(fr[p], "acquire")
       /\ Appended(fr[p]) # {}

\* The step is an explicit reset of the ledger: a call of resetError(), or
\* of populateError with mustClean = true.
ResetCalled ==
    \E p \in DOMAIN pc :
       /\ fr'[p].call # fr[p].call
       /\ \/ fr'[p].op = "resetError"
          \/ fr'[p].op = "populateError" /\ fr'[p].mustClean

\* The ledger lists its records in the order of the invocations that
\* appended them.
InAppendOrder(ledger) ==
    \A i, j \in DOMAIN ledger : i < j => ledger[i].call <= ledger[j].call

\* C19: the ledger is append-only except for an explicit reset: every step
\* that is not a call of resetError() or populateError(..., true) leaves
\* the ledger it found as a prefix of the ledger it leaves; the records stand
\* in the order they were appended, getError returns exactly them, and
\* getLastError returns the last of them, or null when there is none.
C19_LedgerAppendOnly ==
    /\ [][~ResetCalled => IsPrefix(errorInfo, errorInfo')]_vars
    /\ [](/\ InAppendOrder(errorInfo)
          /\ \A p \in DOMAIN pc :
                /\ (Done(p) /\ fr[p].op = "getError") => fr[p].errors = errorInfo
                /\ (Done(p) /\ fr[p].op = "getLastError")
                   => IF errorInfo = <<>>
                      THEN fr[p].ret = "null"
                      ELSE /\ fr[p].ret = "DxBaseError"
                           /\ fr[p].lastError.message = errorInfo[Len(errorInfo)].message
                           /\ fr[p].lastError.call = errorInfo[Len(errorInfo)].call)

\* C19 witness: getError has returned a ledger of records appended by two
\* invocations, the earlier one's first.
C19_Witness ==
    \E p \in DOMAIN pc :
       /\ Done(p) /\ fr[p].op = "getError"
       /\ Len(fr[p].errors) >= 2
       /\ fr[p].errors[1].call = 1 /\ fr[p].errors[Len(fr[p].errors)].call = 2

\* The step is a call of getError().
GetErrorCalled ==
    \E p \in DOMAIN pc : fr'[p].call # fr[p].call /\ fr'[p].op = "getError"

\* C20: getError is a pure read: a call of it leaves the ledger as it was,
\* and a getError called right after another getError returns the same
\* sequence of records; right after a resetError(), getError returns the
\* empty sequence and getLastError returns null.
C20_GetErrorIsPureRead ==
    /\ [][GetErrorCalled => errorInfo' = errorInfo]_vars
    /\ [](\A p \in DOMAIN pc :
            /\ (Done(p) /\ fr[p].op = "getError" /\ fr[p].prevOp = "getError")
               => fr[p].errors = fr[p].prevErrors
            /\ (Done(p) /\ fr[p].op = "getError" /\ fr[p].prevOp = "resetError")
               => fr[p].errors = <<>>
            /\ (Done(p) /\ fr[p].op = "getLastError" /\ fr[p].prevOp = "resetError")
               => fr[p].ret = "null" /\ fr[p].lastError = JsNull)

\* C20 witness: two getError calls in a row have returned the same,
\* non-empty, sequence of records.
C20_Witness ==
    \E p \in DOMAIN pc :
       /\ Done(p) /\ fr[p].op = "getError" /\ fr[p].prevOp = "getError"
       /\ fr[p].errors # <<>> /\ fr[p].errors = fr[p].prevErrors

MetaError == "Invalid error type provided, errors can be only of type string or Object"

\* C21: populateError(errorToPush, errorStack, mustClean) returns normally
\* and leaves the ledger one record longer than it found it (exactly one
\* record long when mustClean is true), for a string, an object with a
\* message, an object without a message and a value that is neither; the
\* record carries the string, the object's message, "No message provided",
\* or, for the value that is neither, the meta-error about the invalid error
\* type; without an errorStack argument the record's cause comes from
\* errorToPush.
C21_PopulateErrorAppendsOneRecord ==
    \A p \in DOMAIN pc :
       (Done(p) /\ fr[p].op = "populateError")
       => LET f == fr[p]
              x == f.errorToPush
              last == errorInfo[Len(errorInfo)]
          IN  /\ f.outcome = "returned"
              /\ Len(errorInfo) = IF f.mustClean THEN 1 ELSE f.len0 + 1
              /\ last.call = f.call
              /\ last.message = CASE x = Str("custom") -> "custom"
                                  [] x = ErrorObject -> "custom error"
                                  [] x = BareObject -> "No message provided"
                                  [] OTHER -> MetaError
              /\ last.errorStack = CASE x = Num -> JsNull
                                     [] f.errorStack # JsNull -> f.errorStack
                                     [] x.t = "object" -> x
                                     [] OTHER -> JsNull

\* C21 witness: populateError was called on a ledger that held a record,
\* with a value that is neither a string nor an object and mustClean false,
\* and the ledger ends with the meta-error.
C21_Witness ==
    \E p \in DOMAIN pc :
       /\ Done(p) /\ fr[p].op = "populateError" /\ fr[p].errorToPush = Num
       /\ ~fr[p].mustClean /\ fr[p].len0 >= 1
       /\ Len(errorInfo) = fr[p].len0 + 1
       /\ errorInfo[Len(errorInfo)].message = MetaError

\* C22: an operation that issued driver calls, all of which succeeded
\* (acquire, begin, query, commit, rollback, release), has appended nothing
\* to the ledger and returned normally; a queryDB(sql, module) among them
\* returned the rows of its query, and the ledger it found empty is empty.
C22_SuccessLeavesLedgerUnchanged ==
    \A p \in DOMAIN pc :
       LET f == fr[p]
       IN  (Done(p) /\ f.trace # <<>> /\ \A i \in DOMAIN f.trace : f.trace[i].ok)
           => /\ Appended(f) = {}
              /\ Len(errorInfo) = f.len0
              /\ f.outcome = "returned"
              /\ f.ret # "null"
              /\ f.op = "queryDB" => f.ret = "rows"

\* C22 witness: queryDB(sql, module) without a handle has acquired a
\* connection, run its query, released the connection and returned the rows;
\* the ledger is empty.
C22_Witness ==
    \E p \in DOMAIN pc :
       /\ Done(p) /\ fr[p].op = "queryDB" /\ fr[p].transaction = NoConn
       /\ fr[p].trace = <<Ev("acquire", fr[p].database, TRUE),
                          Ev("query", fr[p].database, TRUE),
                          Ev("close", fr[p].database, TRUE)>>
       /\ fr[p].ret = "rows"
       /\ errorInfo = <<>>

\* connectDB has returned null to the operation of frame p, which is still
\* to act on it, or which has ended since.
ConnectFailed(p) ==
    LET f == fr[p]
    IN  /\ f.database = NoConn
        /\ \/ pc[p] = "connected"
           \/ /\ Done(p)
              /\ \/ f.op \in {"queryDBMultiple", "beginTransaction"}
                 \/ /\ f.op = "queryDB" /\ f.transaction = NoConn
                    /\ f.query # "undefined" /\ f.moduleName # "undefined"

\* The driver calls of frame f other than those of the modules init checked
\* before the one it stands at.
SinceLastModule(f) ==
    IF f.op = "init" THEN SubSeq(f.trace, 2 * (f.i - 1) + 1, Len(f.trace)) ELSE f.trace

\* C23: when connectDB fails (moduleName undefined, a module that is not
\* configured, or a pool that refuses), it has asked the pool at most once
\* (exactly once when the module has a pool), has appended exactly one
\* record and has returned null to its caller; the operation issues no
\* query, begin, commit, rollback or second acquire after it, and queryDB,
\* queryDBMultiple and beginTransaction then return null.
C23_AcquireFailureIsReportedOnce ==
    \A p \in DOMAIN pc :
       ConnectFailed(p)
       => LET f == fr[p]
              tried == SinceLastModule(f)
          IN  /\ tried = IF IsConfigured(f.moduleName)
                         THEN <<Ev("acquire", NoConn, FALSE)>> ELSE <<>>
              /\ pc[p] = "connected" => Cardinality(Appended(f)) = 1
              /\ Appended(f) # {}
              /\ \A i \in DOMAIN f.trace : f.trace[i].ev \in {"acquire", "close"}
              /\ Done(p) => f.outcome = "returned" /\ f.ret = "null"

\* C23 witness: the pool of a configured module refused a connection to a
\* beginTransaction, which has returned null.
C23_Witness ==
    \E p \in DOMAIN pc :
       /\ Done(p) /\ ConnectFailed(p) /\ fr[p].op = "beginTransaction"
       /\ fr[p].trace = <<Ev("acquire", NoConn, FALSE)>>
       /\ fr[p].ret = "null"

\* The messages of the records the invocation of frame f appended, in ledger
\* order.
MessagesOf(f) ==
    LET own == SelectSeq(errorInfo, LAMBDA r : r.call = f.call)
    IN  [k \in DOMAIN own |-> own[k].message]

\* C24: a commitTransaction whose driver commit failed has appended the
\* record of the commit failure, followed, when the compensating rollback
\* failed too, by the record of the rollback failure and by nothing else;
\* the records are the last of the ledger, and the call returns false.
C24_CommitThenRollbackFailureRecorded ==
    \A p \in DOMAIN pc :
       LET f == fr[p]
       IN  (Done(p) /\ f.op = "commitTransaction" /\ Failed(f, "commit"))
           => /\ MessagesOf(f) = IF Failed(f, "rollback")
                                 THEN <<"Error committing transaction",
                                        "Error rolling transaction back">>
                                 ELSE <<"Error committing transaction">>
              /\ Appended(f) = (f.len0 + 1)..Len(errorInfo)
              /\ f.outcome = "returned"
              /\ f.ret = "false"

\* C24 witness: commit and compensating rollback both failed, the call has
\* returned false and the ledger ends with the two records.
C24_Witness ==
    \E p \in DOMAIN pc :
       /\ Done(p) /\ fr[p].op = "commitTransaction"
       /\ Failed(fr[p], "commit") /\ Failed(fr[p], "rollback")
       /\ fr[p].ret = "false"
       /\ Len(errorInfo) >= 2
       /\ errorInfo[Len(errorInfo) - 1].message = "Error committing transaction"
       /\ errorInfo[Len(errorInfo)].message = "Error rolling transaction back"

\* C25: a queryDBMultiple in which a statement failed while begin, rollback
\* and release succeeded has appended exactly one record, that of the
\* failed statement, has issued no commit, and returns null.
C25_OneFailedStatementOneRecord ==
    \A p \in DOMAIN pc :
       LET f == fr[p]
       IN  (Done(p) /\ f.op = "queryDBMultiple" /\ Failed(f, "query")
              /\ Succeeded(f, "begin") /\ Succeeded(f, "rollback") /\ Succeeded(f, "close"))
           => /\ Cardinality({i \in Positions(f, "query") : ~f.trace[i].ok}) = 1
              /\ MessagesOf(f) = <<"Could not query with transaction">>
              /\ Count(f, "commit") = 0
              /\ f.outcome = "returned"
              /\ f.ret = "null"

\* C25 witness: the second statement of a batch of two failed, the rollback
\* and the release succeeded, and the call's one record ends the ledger.
C25_Witness ==
    \E p \in DOMAIN pc :
       /\ Done(p) /\ fr[p].op = "queryDBMultiple" /\ fr[p].n = 2
       /\ Len(fr[p].results) = 1 /\ Failed(fr[p], "query")
       /\ Succeeded(fr[p], "rollback") /\ Succeeded(fr[p], "close")
       /\ Cardinality(Appended(fr[p])) = 1

\* The init of frame f created and closed a connection for every configured
\* module, in module order.
GateCheckedAllModules(f) ==
    /\ Len(f.trace) = 2 * Len(ModuleArray)
    /\ \A j \in 1..Len(ModuleArray) :
          /\ f.trace[2 * j - 1] = Ev("createConnection", GateConn(ModuleArray[j]), TRUE)
          /\ f.trace[2 * j] = Ev("close", GateConn(ModuleArray[j]), TRUE)

\* C26: in the init-gate revision isInitComplete is false after
\* construction and changes only once, to true, in the step in which an
\* init() ends whose connectivity check succeeded for every module; and a
\* queryDB or queryDBMultiple called while it is false returns null, pushes
\* the "init not completed" error and issues no driver call.
C26_QueriesRefusedUntilInitCompleted ==
    /\ [][isInitComplete' # isInitComplete
            => /\ isInitComplete'
               /\ \E p \in DOMAIN pc :
                     /\ pc[p] # "done" /\ pc'[p] = "done"
                     /\ fr'[p].op = "init" /\ fr'[p].outcome = "returned"
                     /\ GateCheckedAllModules(fr'[p])]_vars
    /\ [](/\ ncalls = 0 => ~isInitComplete
          /\ \A p \in DOMAIN pc :
                (Done(p) /\ fr[p].op \in {"queryDB", "queryDBMultiple"} /\ ~isInitComplete)
                => /\ fr[p].outcome = "returned"
                   /\ fr[p].ret = "null"
                   /\ fr[p].trace = <<>>
                   /\ AppendedWith(fr[p], NotInitialised) # {})

\* C26 witness: an init() failed, and the queryDB called after it was
\* refused.
C26_Witness ==
    \E p \in DOMAIN pc :
       /\ Done(p) /\ fr[p].op = "queryDB" /\ fr[p].query = "sql"
       /\ fr[p].moduleName = ModuleArray[1]
       /\ ~isInitComplete /\ fr[p].ret = "null"
       /\ \E i \in DOMAIN errorInfo : errorInfo[i].message = "Error checking db connection"
       /\ errorInfo[Len(errorInfo)].message = NotInitialised

\* The connections the init of frame f acquired and has not yet called
\* close() on.
Unclosed(f) ==
    {i \in Positions(f, "acquire") :
        f.trace[i].ok /\ ~\E k \in Positions(f, "close") : k > i /\ f.trace[k].conn = f.trace[i].conn}

\* C27: init() takes one connection per configured module, in module
\* order, and calls close() on it before it turns to the next module, so it
\* holds at most one connection at a time; when it ends, close() has been
\* called once on every connection it acquired, and every connection whose
\* release did not throw is back in its pool.
C27_InitReleasesEachConnection ==
    \A p \in DOMAIN pc :
       LET f == fr[p]
       IN  f.op = "init"
           => /\ \A i \in DOMAIN f.trace :
                    /\ f.trace[i].ev = (IF i % 2 = 1 THEN "acquire" ELSE "close")
                    /\ f.trace[i].ok => f.trace[i].conn \in PoolOf((i + 1) \div 2)
                    /\ (i % 2 = 0) => /\ f.trace[i - 1].ok
                                      /\ f.trace[i].conn = f.trace[i - 1].conn
                    /\ ~f.trace[i].ok => i = Len(f.trace)
              /\ Cardinality(Unclosed(f)) <= 1
              /\ Done(p) => /\ Unclosed(f) = {}
                            /\ \A i \in Positions(f, "close") :
                                  f.trace[i].ok => slot[f.trace[i].conn] = "free"

\* C27 witness: init() has returned true after it acquired and released a
\* connection of each module's pool, and no connection is held.
C27_Witness ==
    \E p \in DOMAIN pc :
       /\ Done(p) /\ fr[p].op = "init" /\ fr[p].ret = "true"
       /\ Count(fr[p], "acquire") = Len(ModuleArray)
       /\ Count(fr[p], "close") = Len(ModuleArray)
       /\ \A c \in Conns : slot[c] = "free"

\* The record a transaction operation writes when it is given no handle.
InvalidConnectionMessage(op) ==
    CASE op = "commitTransaction" -> "Could not commit transaction. Invalid connection provided"
      [] op = "rollBackTransaction" -> "Could not roll back transaction. Invalid connection provided"
      [] op = "closeTransaction" -> "Could not close transaction. Invalid connection provided"

\* C28: commitTransaction, rollBackTransaction and closeTransaction called
\* with a null handle each return false, append exactly one record (their
\* "Invalid connection provided" message), and perform no driver operation.
C28_NullHandleRefused ==
    \A p \in DOMAIN pc :
        (Done(p) /\ fr[p].op \in TransactionOps /\ fr[p].transaction = NoConn)
            => /\ fr[p].ret = "false"
               /\ fr[p].trace = <<>>
               /\ Cardinality(Appended(fr[p])) = 1
               /\ Appended(fr[p]) = AppendedWith(fr[p], InvalidConnectionMessage(fr[p].op))

C28_Witness ==
    \E p \in DOMAIN pc :
        /\ Done(p) /\ fr[p].op = "closeTransaction" /\ fr[p].transaction = NoConn
        /\ fr[p].ret = "false"
        /\ Cardinality(Appended(fr[p])) = 1
        /\ Len(errorInfo) > 1

\* C29: queryDBMultiple returns a non-absent result if and only if the driver
\* commit of its batch transaction succeeded: never null after the batch has
\* been committed, never a result list for a batch that was not committed.
C29_ResultIffCommitted ==
    \A p \in DOMAIN pc :
        (Done(p) /\ fr[p].op = "queryDBMultiple")
            => (fr[p].ret # "null" <=> Succeeded(fr[p], "commit"))

\* The half of C29 that the code keeps: a returned list implies a commit that
\* succeeded.
C29_ListOnlyAfterCommit ==
    \A p \in DOMAIN pc :
        (Done(p) /\ fr[p].op = "queryDBMultiple" /\ fr[p].ret # "null")
            => Succeeded(fr[p], "commit")

\* The records of a failed acquire and of the operations that report it.
AcquireMessages ==
    {"Could not interact with the database", "Could not connect to database",
     "Error connecting to database"}

\* Record i chains the last record of the ledger as its cause (the value
\* getLastError returned), as beginTransaction and checkDBConnection do when
\* connectDB has returned null.
ChainsLastError(i) ==
    /\ errorInfo[i].message \in {"Could not connect to database", "Error connecting to database"}
    /\ errorInfo[i].errorStack.t = "errorStack"

\* The cause chained into record i is the failed-acquire record of the
\* invocation that appended record i.
OwnFailedAcquire(i) ==
    /\ errorInfo[i].errorStack.call = errorInfo[i].call
    /\ errorInfo[i].errorStack.message = "Could not interact with the database"

\* C30: when the operations in flight on a connector all fail to acquire a
\* connection, also two or more of them at once, the cause chained into each
\* beginTransaction "Could not connect to database" record and each init
\* "Error connecting to database" record is the record appended by that same
\* operation's own failed acquire, never a record of another operation.
C30_CauseIsOwnFailedAcquire ==
    (\A i \in DOMAIN errorInfo : errorInfo[i].message \in AcquireMessages)
        => \A i \in DOMAIN errorInfo : ChainsLastError(i) => OwnFailedAcquire(i)

\* Two invocations were suspended in connectDB at once, both acquires failed,
\* and one of them has reported since.
C30_ConcurrentFailedAcquires ==
    /\ DOMAIN pc = ConcFrames
    /\ \A p \in DOMAIN pc : fr[p].op = "beginTransaction" /\ ConnectFailed(p)
    /\ \E p \in DOMAIN pc : Done(p)
    /\ \E i, j \in DOMAIN errorInfo :
          /\ i < j /\ j < Len(errorInfo)
          /\ errorInfo[i].message = "Could not interact with the database"
          /\ errorInfo[j].message = "Could not interact with the database"
          /\ errorInfo[i].call # errorInfo[j].call

\* C31: in queryWithTransaction, if the driver begin fails, the callback is
\* never run and no statement and no commit is issued on the connection; the
\* failure is recorded ("Could not query with transaction", once) and, when
\* the call has ended, close() has been invoked on the connection once.
C31_FailedBeginSkipsCallback ==
    \A p \in DOMAIN pc :
       LET f == fr[p]
       IN  (f.op = "queryDBMultiple" /\ Failed(f, "begin"))
           => /\ pc[p] \notin {"qwtStatement", "qwtCommit"}
              /\ Count(f, "query") = 0 /\ Count(f, "commit") = 0
              /\ f.results = <<>> /\ f.queryResult = "null"
              /\ Cardinality(AppendedWith(f, "Could not query with transaction")) = 1
              /\ Done(p) => /\ CountOn(f, "close", f.database) = 1
                            /\ f.trace[Len(f.trace)].ev = "close"
                            /\ f.ret = "null"

\* C31 witness: a batch of at least one statement whose begin failed has
\* ended after the rollback and a close() that put the connection back.
C31_Witness ==
    \E p \in DOMAIN pc :
       /\ Done(p) /\ fr[p].op = "queryDBMultiple" /\ fr[p].n > 0
       /\ Failed(fr[p], "begin")
       /\ Succeeded(fr[p], "close")
       /\ slot[fr[p].database] = "free"
       /\ AppendedWith(fr[p], "Could not query with transaction") # {}

\* The operations that acquire a connection for themselves and give it back.
AutoManaged(f) ==
    \/ f.op \in {"queryDBMultiple", "init"}
    \/ f.op = "queryDB" /\ f.transaction = NoConn

\* No invocation is in flight.
Quiescent == \A p \in Frames : ~InFlight(p)

\* Frame f has called close() on every connection it acquired, and every
\* connection whose release did not throw is in its pool.
ReleasedAll(f) ==
    /\ Unclosed(f) = {}
    /\ \A i \in Positions(f, "close") : f.trace[i].ok => slot[f.trace[i].conn] = "free"

\* C32: when every driver call settles, every public operation that was
\* called ends (it returns or throws), and in every quiescent state each
\* auto-managed operation (queryDB without a handle, queryDBMultiple, init)
\* has released every connection it acquired: close() was called on it, and
\* the connection is back in its pool unless that release itself threw.
C32_TerminatesAndReleases ==
    /\ \A p \in Frames : InFlight(p) ~> Done(p)
    /\ [](Quiescent => \A p \in Frames : AutoManaged(fr[p]) => ReleasedAll(fr[p]))

\* C32 witness: a batch whose commit and rollback both failed has ended, its
\* connection is back in the pool and nothing is in flight.
C32_Witness ==
    /\ Quiescent
    /\ \E p \in Frames :
          /\ Done(p) /\ fr[p].op = "queryDBMultiple"
          /\ Succeeded(fr[p], "acquire")
          /\ Failed(fr[p], "commit") /\ Failed(fr[p], "rollback")
          /\ slot[fr[p].database] = "free"

====
